---- MODULE Spec2Model ----
(***************************************************************************)
(* hexv (src/src/main.rs): reads bytes from stdin and writes them to       *)
(* stdout with control characters, whitespace, invalid UTF-8 and           *)
(* characters missing from the chosen fonts replaced by escapes.           *)
(*                                                                         *)
(* Bytes are integers 0..255, characters are Unicode scalar values         *)
(* (integers), text written to stdout is the sequence of its UTF-8 bytes.  *)
(* Reads and writes that fail (the unwrap() calls) are not modelled.        *)
(***************************************************************************)
EXTENDS Integers, Sequences, FiniteSets, TLC

VARIABLES
    pc,            \* position of main / of the loop of process_str
    requested,     \* the flags given on the command line (clap's matches)
    formatter,     \* the Formatter struct's flags
    line_by_line,  \* matches.get_flag("line-by-line")
    fonts,         \* Vec<FontCow>: each font is the set of characters it has a glyph for
    input,         \* everything stdin delivers in this run (never changes)
    stdin,         \* what stdin has not delivered yet
    buffer,        \* Vec<u8> buffer of main; the slice handed to process_str
    read,          \* the last result of read_until
    idx,           \* process_str: offset of the next unit of char_indices
    unit,          \* process_str: the unit of the last loop iteration
    emitted,       \* process_str: what the last loop iteration wrote
    chunks,        \* the slices processed so far, in order
    stdout_lock,   \* [buf: bytes held by stdout's line buffer, sink: bytes delivered]
    flushes,       \* number of explicit flush() calls
    is_terminal    \* stdout_lock.is_terminal()

vars == <<pc, requested, formatter, line_by_line, fonts, input, stdin, buffer, read,
          idx, unit, emitted, chunks, stdout_lock, flushes, is_terminal>>

(***************************************************************************)
(* Sequences of bytes                                                      *)
(***************************************************************************)
RECURSIVE Flatten(_)
Flatten(ss) == IF ss = <<>> THEN <<>> ELSE Head(ss) \o Flatten(Tail(ss))

Max(a, b) == IF a >= b THEN a ELSE b

\* s[from+1 .. to], the Rust slice s[from..to]
Slice(s, from, to) == SubSeq(s, from + 1, to)

SeqsUpTo(S, n) == UNION {[1..k -> S] : k \in 0..n}

(***************************************************************************)
(* Text formatting of numbers (core::fmt)                                  *)
(***************************************************************************)
\* ASCII code of the decimal digit d
DecDigit(d) == 48 + d

\* ASCII code of the lowercase hex digit d
HexDigit(d) == IF d < 10 THEN 48 + d ELSE 97 + (d - 10)

\* "{}" of an unsigned integer: decimal, no padding
RECURSIVE FmtDec(_)
FmtDec(n) == IF n < 10 THEN <<DecDigit(n)>> ELSE FmtDec(n \div 10) \o <<DecDigit(n % 10)>>

\* "{:x}" of an unsigned integer: lowercase hex, no padding
RECURSIVE FmtHex(_)
FmtHex(n) == IF n < 16 THEN <<HexDigit(n)>> ELSE FmtHex(n \div 16) \o <<HexDigit(n % 16)>>

\* left padding with '0' up to the width w
RECURSIVE ZeroPad(_, _)
ZeroPad(s, w) == IF Len(s) >= w THEN s ELSE ZeroPad(<<48>> \o s, w)

(***************************************************************************)
(* UTF-8                                                                   *)
(***************************************************************************)
\* char::to_string().as_bytes(), and "{}" of a char
Utf8Encode(c) ==
    IF c < 128 THEN <<c>>
    ELSE IF c < 2048 THEN <<192 + (c \div 64), 128 + (c % 64)>>
    ELSE IF c < 65536 THEN <<224 + (c \div 4096), 128 + ((c \div 64) % 64), 128 + (c % 64)>>
    ELSE <<240 + (c \div 262144), 128 + ((c \div 4096) % 64),
           128 + ((c \div 64) % 64), 128 + (c % 64)>>

\* U+FFFD, what bstr's char_indices yields for bytes that do not decode
REPLACEMENT_CHARACTER == 65533

\* The first byte of a multi-byte sequence: how many bytes must follow, the
\* range the second byte must lie in, and the bits the first byte carries.
\* need = 0: the byte starts no sequence.
LeadByte(b) ==
    IF b >= 194 /\ b <= 223 THEN [need |-> 1, lo |-> 128, hi |-> 191, cp |-> b - 192]
    ELSE IF b = 224 THEN [need |-> 2, lo |-> 160, hi |-> 191, cp |-> 0]
    ELSE IF (b >= 225 /\ b <= 236) \/ b = 238 \/ b = 239
        THEN [need |-> 2, lo |-> 128, hi |-> 191, cp |-> b - 224]
    ELSE IF b = 237 THEN [need |-> 2, lo |-> 128, hi |-> 159, cp |-> 13]
    ELSE IF b = 240 THEN [need |-> 3, lo |-> 144, hi |-> 191, cp |-> 0]
    ELSE IF b >= 241 /\ b <= 243 THEN [need |-> 3, lo |-> 128, hi |-> 191, cp |-> b - 240]
    ELSE IF b = 244 THEN [need |-> 3, lo |-> 128, hi |-> 143, cp |-> 4]
    ELSE [need |-> 0, lo |-> 0, hi |-> 0, cp |-> 0]

\* bstr's decode loop after i bytes were accepted: need more bytes to follow,
\* the next one within lo..hi.  A byte that is rejected ends the unit before
\* itself (but a unit is never empty); the end of the slice ends the unit there.
RECURSIVE DecodeRest(_, _, _, _, _, _)
DecodeRest(s, i, need, cp, lo, hi) ==
    IF need = 0 THEN [ok |-> TRUE, ch |-> cp, n |-> i]
    ELSE IF i >= Len(s) THEN [ok |-> FALSE, ch |-> REPLACEMENT_CHARACTER, n |-> i]
    ELSE IF s[i + 1] >= lo /\ s[i + 1] <= hi
        THEN DecodeRest(s, i + 1, need - 1, cp * 64 + (s[i + 1] - 128), 128, 191)
    ELSE [ok |-> FALSE, ch |-> REPLACEMENT_CHARACTER, n |-> Max(1, i)]

\* bstr::decode_utf8 of a non-empty slice: the character and the bytes consumed
Decode(s) ==
    IF s[1] <= 127 THEN [ok |-> TRUE, ch |-> s[1], n |-> 1]
    ELSE LET l == LeadByte(s[1]) IN
         IF l.need = 0 THEN [ok |-> FALSE, ch |-> REPLACEMENT_CHARACTER, n |-> 1]
         ELSE DecodeRest(s, 1, l.need, l.cp, l.lo, l.hi)

\* One item of buffer.char_indices(), the one that starts at offset start
CharIndexAt(buf, start) ==
    LET d == Decode(Slice(buf, start, Len(buf))) IN
    [start |-> start, end |-> start + d.n, ch |-> d.ch, ok |-> d.ok]

(***************************************************************************)
(* Characters (core::char)                                                 *)
(***************************************************************************)
NEWLINE == 10
CARRIAGE_RETURN == 13
TAB == 9
SPACE == 32
BACKSLASH == 92

\* char::is_ascii
IsAscii(c) == c <= 127

\* char::is_ascii_control: U+0000..=U+001F and U+007F
IsAsciiControl(c) == c <= 31 \/ c = 127

\* char::is_whitespace: the characters with the White_Space property
IsWhitespace(c) ==
    \/ c >= 9 /\ c <= 13
    \/ c \in {32, 133, 160, 5760, 8232, 8233, 8239, 8287, 12288}
    \/ c >= 8192 /\ c <= 8202

(***************************************************************************)
(* stdout: a line-buffered writer in front of the sink                     *)
(***************************************************************************)
\* the offset after the last newline of s, 0 when s has none
RECURSIVE AfterLastNewline(_)
AfterLastNewline(s) ==
    IF s = <<>> THEN 0
    ELSE IF s[Len(s)] = NEWLINE THEN Len(s)
    ELSE AfterLastNewline(SubSeq(s, 1, Len(s) - 1))

\* write!(self.stdout_lock, ...): bytes that complete a line go to the sink
\* together with everything held before them, the rest is held
Write(out, bytes) ==
    LET k == AfterLastNewline(bytes) IN
    IF k = 0 THEN [out EXCEPT !.buf = out.buf \o bytes]
    ELSE [buf |-> Slice(bytes, k, Len(bytes)),
          sink |-> out.sink \o out.buf \o Slice(bytes, 0, k)]

\* a flush that delivers nothing
\* (a fault the properties below must detect)
NoFlush(out) == out

\* stdout_lock.flush()
Flush(out) == [buf |-> <<>>, sink |-> out.sink \o out.buf]

\* everything written so far, delivered or not
Written(out) == out.sink \o out.buf

(***************************************************************************)
(* Formatter                                                               *)
(***************************************************************************)
\* write_byte with uppercase hex digits
\* (a fault the properties below must detect)
WriteByteUpperHex(f, byte) ==
    IF f.hex_as_decimal
    THEN <<BACKSLASH, 100>> \o ZeroPad(FmtDec(byte), 3)
    ELSE LET hex == ZeroPad(FmtHex(byte), 2) IN
         <<BACKSLASH, 120>> \o [i \in 1..Len(hex) |-> IF hex[i] >= 97 THEN hex[i] - 32 ELSE hex[i]]

\* Formatter::write_byte: the text it writes
WriteByte(f, byte) ==
    IF f.hex_as_decimal
    THEN <<BACKSLASH, 100>> \o ZeroPad(FmtDec(byte), 3)
    ELSE <<BACKSLASH, 120>> \o ZeroPad(FmtHex(byte), 2)

\* write_byte for each byte of bs, in order
RECURSIVE WriteBytes(_, _)
WriteBytes(f, bs) ==
    IF bs = <<>> THEN <<>> ELSE WriteByte(f, Head(bs)) \o WriteBytes(f, Tail(bs))

\* char::escape_unicode: \u{NNNNNN}, lowercase hex without leading zeros
EscapeUnicode(c) == <<BACKSLASH, 117, 123>> \o FmtHex(c) \o <<125>>

\* write_char that does not look at as_bytes
\* (a fault the properties below must detect)
WriteCharNoBytes(f, c) ==
    IF f.hex_as_decimal THEN <<BACKSLASH, 117, 123>> \o FmtDec(c) \o <<125>>
    ELSE EscapeUnicode(c)

\* write_char with the decimal form chosen before the byte form
\* (a fault the properties below must detect)
WriteCharDecimalFirst(f, c) ==
    IF f.hex_as_decimal THEN <<BACKSLASH, 117, 123>> \o FmtDec(c) \o <<125>>
    ELSE IF f.as_bytes THEN WriteBytes(f, Utf8Encode(c))
    ELSE EscapeUnicode(c)

\* Formatter::write_char: the text it writes
WriteChar(f, c) ==
    IF f.as_bytes THEN WriteBytes(f, Utf8Encode(c))
    ELSE IF f.hex_as_decimal THEN <<BACKSLASH, 117, 123>> \o FmtDec(c) \o <<125>>
    ELSE EscapeUnicode(c)

\* FontCow::glyph_id(c).0 != 0: the font has a glyph for c
HasGlyph(font, c) == c \in font

\* is_char_in_fonts
IsCharInFonts(fs, c) == \E i \in 1..Len(fs) : HasGlyph(fs[i], c)

\* the string literal of the space_as_circle arm, as the bytes of the source
\* file (the code page 1252 reading of U+1F784's four UTF-8 bytes, in UTF-8)
CIRCLE == <<195, 176, 197, 184, 197, 190, 226, 128, 158>>

\* the guard of the last guarded arm of the match in process_str
NeedsEscape(f, fs, c) ==
    \/ IsAsciiControl(c)
    \/ (c # SPACE /\ IsWhitespace(c))
    \/ (c = SPACE /\ f.space_as_hex)
    \/ (~IsAscii(c) /\ ~IsCharInFonts(fs, c))

\* the match with arms that do not look at the flags carriage_return_as_hex
\* and tab_as_hex (a fault the properties below must detect)
MatchCharNoHexFlags(f, fs, c) ==
    IF c = NEWLINE /\ f.newline_escaped THEN <<BACKSLASH, 110>>
    ELSE IF c = NEWLINE /\ ~f.newline_as_hex THEN Utf8Encode(c)
    ELSE IF c = CARRIAGE_RETURN THEN <<BACKSLASH, 114>>
    ELSE IF c = TAB THEN <<BACKSLASH, 116>>
    ELSE IF c = SPACE /\ f.space_as_circle THEN CIRCLE
    ELSE IF NeedsEscape(f, fs, c) THEN WriteChar(f, c)
    ELSE Utf8Encode(c)

\* the match of process_str: what is written for the character c
MatchChar(f, fs, c) ==
    IF c = NEWLINE /\ f.newline_escaped THEN <<BACKSLASH, 110>>
    ELSE IF c = NEWLINE /\ ~f.newline_as_hex THEN Utf8Encode(c)
    ELSE IF c = CARRIAGE_RETURN /\ ~f.carriage_return_as_hex THEN <<BACKSLASH, 114>>
    ELSE IF c = TAB /\ ~f.tab_as_hex THEN <<BACKSLASH, 116>>
    ELSE IF c = SPACE /\ f.space_as_circle THEN CIRCLE
    ELSE IF NeedsEscape(f, fs, c) THEN WriteChar(f, c)
    ELSE Utf8Encode(c)

\* the loop body with the all_as_hex test before the comparison of the bytes
\* (a fault the properties below must detect)
UnitOutAllHexFirst(f, fs, buf, u) ==
    LET original_bytes == Slice(buf, u.start, u.end)
        new_bytes == Utf8Encode(u.ch)
    IN  IF f.all_as_hex THEN WriteChar(f, u.ch)
        ELSE IF original_bytes # new_bytes THEN WriteBytes(f, original_bytes)
        ELSE MatchChar(f, fs, u.ch)

\* the loop body without the all_as_hex branch
\* (a fault the properties below must detect)
UnitOutNoAllHex(f, fs, buf, u) ==
    LET original_bytes == Slice(buf, u.start, u.end)
        new_bytes == Utf8Encode(u.ch)
    IN  IF original_bytes # new_bytes THEN WriteBytes(f, original_bytes)
        ELSE MatchChar(f, fs, u.ch)

\* one iteration of the loop of process_str: what is written for the unit u
\* of buf.char_indices()
UnitOut(f, fs, buf, u) ==
    LET original_bytes == Slice(buf, u.start, u.end)
        new_bytes == Utf8Encode(u.ch)
    IN  IF original_bytes # new_bytes THEN WriteBytes(f, original_bytes)
        ELSE IF f.all_as_hex THEN WriteChar(f, u.ch)
        ELSE MatchChar(f, fs, u.ch)

\* process_str from the offset start on: everything it writes
RECURSIVE ProcessFrom(_, _, _, _)
ProcessFrom(f, fs, buf, start) ==
    IF start >= Len(buf) THEN <<>>
    ELSE LET u == CharIndexAt(buf, start) IN
         UnitOut(f, fs, buf, u) \o ProcessFrom(f, fs, buf, u.end)

\* Formatter::process_str: everything it writes for the slice buf
ProcessStr(f, fs, buf) == ProcessFrom(f, fs, buf, 0)

(***************************************************************************)
(* main                                                                    *)
(***************************************************************************)
\* longest input of a run
MaxLen == 2

\* the bytes stdin may deliver: newline, the two bytes of U+00E9, and 0xFF
InputBytes == {10, 195, 169, 255}

Inputs == SeqsUpTo(InputBytes, MaxLen)

\* the fonts a run may load: one or several, with and without U+00E9
FontSets == {<<{}>>, <<{233}>>, <<{}, {233, 8364}>>}

\* what get_matches() may return for the flags: every combination
Matches ==
    [bytes : BOOLEAN, all : BOOLEAN, decimal : BOOLEAN,
     newline_escaped : BOOLEAN, newline_hex : BOOLEAN,
     carriage_return_hex : BOOLEAN, tab_hex : BOOLEAN,
     space_circle : BOOLEAN, space_hex : BOOLEAN, line_by_line : BOOLEAN]

\* flags declared without conflicts_with
\* (a fault the properties below must detect)
NoConflicts(m) == FALSE

\* clap's conflicts_with: the two arguments were both given
Conflicts(m) ==
    \/ (m.newline_hex /\ m.newline_escaped)
    \/ (m.space_hex /\ m.space_circle)

\* the Formatter main constructs from the matches
NewFormatter(m) ==
    [as_bytes               |-> m.bytes,
     all_as_hex             |-> m.all,
     hex_as_decimal         |-> m.decimal,
     newline_escaped        |-> m.newline_escaped,
     newline_as_hex         |-> m.newline_hex /\ ~m.newline_escaped,
     carriage_return_as_hex |-> m.carriage_return_hex,
     tab_as_hex             |-> m.tab_hex,
     space_as_circle        |-> m.space_circle,
     space_as_hex           |-> m.space_hex /\ ~m.space_circle]

\* the value of formatter before main constructs it
NoFormatter ==
    [as_bytes |-> FALSE, all_as_hex |-> FALSE, hex_as_decimal |-> FALSE,
     newline_escaped |-> FALSE, newline_as_hex |-> FALSE,
     carriage_return_as_hex |-> FALSE, tab_as_hex |-> FALSE,
     space_as_circle |-> FALSE, space_as_hex |-> FALSE]

NoUnit == [start |-> 0, end |-> 0, ch |-> 0, ok |-> TRUE]

\* the condition of the branch that escapes raw bytes without decoding
FastPath(f) == f.all_as_hex /\ f.as_bytes

\* what main writes for one slice: write_byte for every byte on the fast
\* path, process_str otherwise
SliceOut(f, fs, slice) ==
    IF FastPath(f) THEN WriteBytes(f, slice) ELSE ProcessStr(f, fs, slice)

\* the number of bytes read_until(b'\n') takes from s: up to and including
\* the first newline, everything when there is none
RECURSIVE ReadUntilLen(_)
ReadUntilLen(s) ==
    IF s = <<>> THEN 0
    ELSE IF Head(s) = NEWLINE THEN 1
    ELSE 1 + ReadUntilLen(Tail(s))

\* the buffer is not cleared
\* (a fault the properties below must detect)
KeepBuffer(buf) == buf

\* buffer.clear()
Clear(buf) == <<>>

\* the final newline without the test for a terminal
\* (a fault the properties below must detect)
FinalNewlineAnySink(f, terminal) ==
    f.all_as_hex \/ f.newline_escaped \/ f.newline_as_hex

\* the condition of the final writeln!
FinalNewline(f, terminal) ==
    terminal /\ (f.all_as_hex \/ f.newline_escaped \/ f.newline_as_hex)

Init ==
    /\ pc = "start"
    /\ requested \in Matches
    /\ input \in Inputs
    /\ stdin = input
    /\ is_terminal \in BOOLEAN
    /\ formatter = NoFormatter
    /\ line_by_line = FALSE
    /\ fonts = <<>>
    /\ buffer = <<>>
    /\ read = 0
    /\ idx = 0
    /\ unit = NoUnit
    /\ emitted = <<>>
    /\ chunks = <<>>
    /\ stdout_lock = [buf |-> <<>>, sink |-> <<>>]
    /\ flushes = 0

\* get_matches() exits with a usage error when conflicting flags were given
UsageError ==
    /\ pc = "start"
    /\ Conflicts(requested)
    /\ pc' = "usage_error"
    /\ UNCHANGED <<requested, formatter, line_by_line, fonts, input, stdin, buffer, read,
                   idx, unit, emitted, chunks, stdout_lock, flushes, is_terminal>>

\* get_matches() returns; main constructs the Formatter and chooses the branch
ParseArgs ==
    /\ pc = "start"
    /\ ~Conflicts(requested)
    /\ formatter' = NewFormatter(requested)
    /\ line_by_line' = requested.line_by_line
    /\ pc' = IF FastPath(formatter') THEN "read" ELSE "fonts"
    /\ UNCHANGED <<requested, fonts, input, stdin, buffer, read,
                   idx, unit, emitted, chunks, stdout_lock, flushes, is_terminal>>

\* every font name is found and loads
LoadFonts ==
    /\ pc = "fonts"
    /\ \E fs \in FontSets : fonts' = fs
    /\ pc' = "read"
    /\ UNCHANGED <<requested, formatter, line_by_line, input, stdin, buffer, read,
                   idx, unit, emitted, chunks, stdout_lock, flushes, is_terminal>>

\* get_font_source finds no such font (exit(1)), or load_font cannot read or
\* parse one (panic): the run ends before anything is read
FontNotFound ==
    /\ pc = "fonts"
    /\ pc' = "font_error"
    /\ UNCHANGED <<requested, formatter, line_by_line, fonts, input, stdin, buffer, read,
                   idx, unit, emitted, chunks, stdout_lock, flushes, is_terminal>>

\* whole-buffer mode: read_to_end, then the whole buffer is processed
ReadToEnd ==
    /\ pc = "read"
    /\ ~line_by_line
    /\ buffer' = buffer \o stdin
    /\ stdin' = <<>>
    /\ chunks' = Append(chunks, buffer')
    /\ stdout_lock' = Write(stdout_lock, SliceOut(formatter, fonts, buffer'))
    /\ pc' = "final"
    /\ UNCHANGED <<requested, formatter, line_by_line, fonts, input, read,
                   idx, unit, emitted, flushes, is_terminal>>

\* line-by-line mode: read_until appends one line to the buffer; the loop
\* ends when nothing was read
ReadUntil ==
    /\ pc = "read"
    /\ line_by_line
    /\ read' = ReadUntilLen(stdin)
    /\ buffer' = buffer \o Slice(stdin, 0, read')
    /\ stdin' = Slice(stdin, read', Len(stdin))
    /\ pc' = IF read' = 0 THEN "final" ELSE "line"
    /\ UNCHANGED <<requested, formatter, line_by_line, fonts, input,
                   idx, unit, emitted, chunks, stdout_lock, flushes, is_terminal>>

\* line-by-line mode: buffer[..read] is processed, stdout is flushed and the
\* buffer is cleared
ProcessLine ==
    /\ pc = "line"
    /\ LET slice == Slice(buffer, 0, read) IN
        /\ chunks' = Append(chunks, slice)
        /\ stdout_lock' = Flush(Write(stdout_lock, SliceOut(formatter, fonts, slice)))
    /\ flushes' = flushes + 1
    /\ buffer' = Clear(buffer)
    /\ pc' = "read"
    /\ UNCHANGED <<requested, formatter, line_by_line, fonts, input, stdin, read,
                   idx, unit, emitted, is_terminal>>

\* the final newline for terminal output; main returns and stdout is flushed
Finish ==
    /\ pc = "final"
    /\ stdout_lock' = Flush(IF FinalNewline(formatter, is_terminal)
                            THEN Write(stdout_lock, <<NEWLINE>>)
                            ELSE stdout_lock)
    /\ pc' = "done"
    /\ UNCHANGED <<requested, formatter, line_by_line, fonts, input, stdin, buffer, read,
                   idx, unit, emitted, chunks, flushes, is_terminal>>

Next ==
    \/ UsageError
    \/ ParseArgs
    \/ LoadFonts
    \/ FontNotFound
    \/ ReadToEnd
    \/ ReadUntil
    \/ ProcessLine
    \/ Finish

Spec == Init /\ [][Next]_vars

(***************************************************************************)
(* Properties of main (checked under Spec)                                 *)
(***************************************************************************)
\* what main has written for the slices processed so far
ChunksOut == Flatten([i \in 1..Len(chunks) |-> SliceOut(formatter, fonts, chunks[i])])

\* C2: when all_as_hex and as_bytes are both set, what the fast path writes
\* (write_byte of every raw byte, no decoding, no fonts) equals what
\* process_str writes for the same input with these flags, whatever the fonts,
\* in decimal and in hex, for invalid UTF-8 too.
C2_FastPathEqualsProcessStr ==
    (pc = "final" /\ formatter.all_as_hex /\ formatter.as_bytes) =>
        \A fs \in FontSets : Written(stdout_lock) = ProcessStr(formatter, fs, input)

\* the fast path wrote \d195\d010 for an invalid byte and a newline
C2_Witness ==
    /\ pc = "final"
    /\ formatter.all_as_hex /\ formatter.as_bytes /\ formatter.hex_as_decimal
    /\ input = <<195, 10>>
    /\ Written(stdout_lock) = <<92, 100, 49, 57, 53, 92, 100, 48, 49, 48>>

BothNewlineFlags == requested.newline_escaped /\ requested.newline_hex

BothSpaceFlags == requested.space_circle /\ requested.space_hex

\* C4 as stated: a request for both flags of a pair raises no error: the run
\* goes on (as if only newline_escaped, or only space_circle, were requested).
C4_Original ==
    (BothNewlineFlags \/ BothSpaceFlags) => pc # "usage_error"

\* C4 as amended: a request for both flags of a pair ends in a usage error
\* before a Formatter is constructed, anything is read or anything is written;
\* in every run that goes on at most one flag of each pair was requested, and
\* the Formatter holds the four flags as requested, never both of a pair.
C4_ConflictIsUsageError ==
    /\ (BothNewlineFlags \/ BothSpaceFlags) =>
        /\ pc \in {"start", "usage_error"}
        /\ formatter = NoFormatter
        /\ stdin = input
        /\ Written(stdout_lock) = <<>>
    /\ pc \notin {"start", "usage_error"} =>
        /\ formatter.newline_escaped = requested.newline_escaped
        /\ formatter.newline_as_hex = requested.newline_hex
        /\ formatter.space_as_circle = requested.space_circle
        /\ formatter.space_as_hex = requested.space_hex
        /\ ~(formatter.newline_escaped /\ formatter.newline_as_hex)
        /\ ~(formatter.space_as_circle /\ formatter.space_as_hex)

\* space-circle and space-hex were both given and the run ended in a usage error
C4_Witness ==
    /\ pc = "usage_error"
    /\ BothSpaceFlags
    /\ ~BothNewlineFlags

\* C6 as stated: for the input of the single byte 0xFF, under any flags, the
\* output for the byte is \xff.
C6_Original ==
    (pc = "final" /\ input = <<255>>) => Written(stdout_lock) = <<92, 120, 102, 102>>

\* C6 as amended: the output for the byte is \xff when hex_as_decimal is not
\* set and \d255 when it is, under any other flags.
C6_ByteEscapeOfFF ==
    (pc = "final" /\ input = <<255>>) =>
        Written(stdout_lock) = IF formatter.hex_as_decimal
                               THEN <<92, 100, 50, 53, 53>>
                               ELSE <<92, 120, 102, 102>>

\* 0xFF was written as \xff line by line by process_str, not in decimal
C6_Witness ==
    /\ pc = "final"
    /\ input = <<255>>
    /\ line_by_line
    /\ ~formatter.hex_as_decimal
    /\ ~formatter.all_as_hex
    /\ Written(stdout_lock) = <<92, 120, 102, 102>>

NewlineOnlyLast(s) == \A i \in 1..(Len(s) - 1) : s[i] # 10

\* C9: in line-by-line mode the buffer is empty and stdout flushed (once per
\* slice) before every read; a read delivers the next bytes of the input up to
\* and including the first newline, or up to the end of the input, and
\* buffer[..read] is exactly these bytes; the slices processed are the input in
\* order, each byte in exactly one of them, and what was written is their
\* output in this order; the loop is left by a read of zero bytes, with the
\* whole input processed; every slice holds at least one byte of the input, so
\* the loop runs at most once per byte of the input.
C9_LineByLineProtocol ==
    line_by_line =>
        /\ pc = "read" =>
            /\ buffer = <<>>
            /\ stdout_lock.buf = <<>>
            /\ flushes = Len(chunks)
            /\ Flatten(chunks) \o stdin = input
        /\ pc = "line" =>
            /\ read > 0
            /\ read = Len(buffer)
            /\ Flatten(chunks) \o buffer \o stdin = input
            /\ NewlineOnlyLast(buffer)
            /\ (buffer[Len(buffer)] = 10 \/ stdin = <<>>)
            /\ stdout_lock.buf = <<>>
            /\ flushes = Len(chunks)
        /\ pc \in {"final", "done"} =>
            /\ read = 0
            /\ stdin = <<>>
            /\ buffer = <<>>
            /\ Flatten(chunks) = input
            /\ flushes = Len(chunks)
        /\ \A i \in 1..Len(chunks) :
            /\ chunks[i] # <<>>
            /\ NewlineOnlyLast(chunks[i])
            /\ i < Len(chunks) => chunks[i][Len(chunks[i])] = 10
        /\ pc \in {"read", "line", "final"} => Written(stdout_lock) = ChunksOut
        /\ Len(chunks) <= Len(input)

\* two slices were processed under newline_escaped, the second without a newline
C9_Witness ==
    /\ pc = "done"
    /\ line_by_line
    /\ formatter.newline_escaped
    /\ chunks = <<<<10>>, <<255>>>>
    /\ flushes = 2

\* the offsets at which the units of buf.char_indices() end, from start on
RECURSIVE UnitEnds(_, _)
UnitEnds(buf, start) ==
    IF start >= Len(buf) THEN {}
    ELSE {CharIndexAt(buf, start).end} \union UnitEnds(buf, CharIndexAt(buf, start).end)

\* the offset of the input at which slice k ends
ChunkEnd(k) == Len(Flatten(SubSeq(chunks, 1, k)))

MaxChars == 2

\* characters of every kind the match tells apart, and of every width of
\* code point and of encoding
Chars ==
    {0, TAB, NEWLINE, 11, CARRIAGE_RETURN, SPACE, 65, BACKSLASH, 127, 133, 160, 233,
     8232, 8364, REPLACEMENT_CHARACTER, 128512, 128900, 1114111}

\* the characters of the texts: newline, backslash, 'n' and U+00E9
TextChars == {NEWLINE, BACKSLASH, 110, 233}

\* valid UTF-8: the encodings of the texts of at most MaxChars characters
Texts == {Flatten([i \in 1..Len(t) |-> Utf8Encode(t[i])]) : t \in SeqsUpTo(TextChars, MaxChars)}

\* bytes that are not valid UTF-8, alone and next to valid characters:
\* bytes that start nothing, truncated sequences, an overlong form, a
\* surrogate, a code point above U+10FFFF
Malformed ==
    {<<255>>, <<128>>, <<195>>, <<226, 130>>, <<240, 159, 152>>, <<192, 128>>,
     <<237, 160, 128>>, <<244, 144, 128, 128>>, <<255, 65>>, <<195, 32>>,
     <<226, 130, 10>>, <<65, 255, 10>>, <<195, 195, 169>>}

\* the slices process_str is called with
Slices == {Utf8Encode(c) : c \in Chars} \union Texts \union Malformed

\* process_str is entered with some Formatter main can construct, some fonts
\* and some slice
InitStr ==
    /\ pc = "loop"
    /\ requested \in {m \in Matches : ~Conflicts(m) /\ ~m.line_by_line}
    /\ formatter = NewFormatter(requested)
    /\ line_by_line = FALSE
    /\ fonts \in FontSets
    /\ buffer \in Slices
    /\ input = buffer
    /\ stdin = <<>>
    /\ is_terminal = FALSE
    /\ read = 0
    /\ idx = 0
    /\ unit = NoUnit
    /\ emitted = <<>>
    /\ chunks = <<>>
    /\ stdout_lock = [buf |-> <<>>, sink |-> <<>>]
    /\ flushes = 0

\* one iteration of the loop over buffer.char_indices()
ProcessUnit ==
    /\ pc = "loop"
    /\ idx < Len(buffer)
    /\ unit' = CharIndexAt(buffer, idx)
    /\ emitted' = UnitOut(formatter, fonts, buffer, unit')
    /\ stdout_lock' = Write(stdout_lock, emitted')
    /\ idx' = unit'.end
    /\ UNCHANGED <<pc, requested, formatter, line_by_line, fonts, input, stdin, buffer,
                   read, chunks, flushes, is_terminal>>

\* char_indices() is exhausted: process_str returns
Return ==
    /\ pc = "loop"
    /\ idx >= Len(buffer)
    /\ pc' = "return"
    /\ UNCHANGED <<requested, formatter, line_by_line, fonts, input, stdin, buffer, read,
                   idx, unit, emitted, chunks, stdout_lock, flushes, is_terminal>>

NextStr == ProcessUnit \/ Return

SpecStr == InitStr /\ [][NextStr]_vars

(***************************************************************************)
(* Properties of process_str (checked under SpecStr)                       *)
(***************************************************************************)
\* the loop has handled a unit that decoded to a character
CharHandled == idx > 0 /\ unit.ok

\* the bytes of the buffer the last unit was decoded from
UnitBytes == Slice(buffer, unit.start, unit.end)

\* the guard of rule k of the decision table, for the character c
RuleGuard(k, f, fs, c) ==
    CASE k = 2 -> f.all_as_hex
      [] k = 3 -> c = NEWLINE /\ f.newline_escaped
      [] k = 4 -> c = NEWLINE /\ ~f.newline_as_hex
      [] k = 5 -> c = CARRIAGE_RETURN /\ ~f.carriage_return_as_hex
      [] k = 6 -> c = TAB /\ ~f.tab_as_hex
      [] k = 7 -> c = SPACE /\ f.space_as_circle
      [] k = 8 -> \/ IsAsciiControl(c)
                  \/ (IsWhitespace(c) /\ c # SPACE)
                  \/ (c = SPACE /\ f.space_as_hex)
                  \/ (c > 127 /\ \A i \in 1..Len(fs) : c \notin fs[i])
      [] k = 9 -> TRUE

\* the first rule whose guard holds
FirstRule(f, fs, c) ==
    CHOOSE k \in 2..9 : RuleGuard(k, f, fs, c) /\ \A j \in 2..(k - 1) : ~RuleGuard(j, f, fs, c)

\* what rule k writes for the character c, read from the bytes orig
RuleAction(k, f, c, orig) ==
    CASE k = 2 -> WriteChar(f, c)
      [] k = 3 -> <<92, 110>>
      [] k = 4 -> <<10>>
      [] k = 5 -> <<92, 114>>
      [] k = 6 -> <<92, 116>>
      [] k = 7 -> CIRCLE
      [] k = 8 -> WriteChar(f, c)
      [] k = 9 -> orig

\* C1: for every configuration, font set and validly encoded character,
\* process_str writes exactly what the first matching rule of the table
\* (2 all-hex, 3 newline escaped, 4 raw newline, 5 \r, 6 \t, 7 circle,
\* 8 general escape, 9 unchanged) writes; a newline, carriage return or tab
\* whose hex flag is set (all-hex off, newline_escaped off) is written by rule 8
\* as an escape and not as its literal token.
C1_FirstMatchingRule ==
    CharHandled =>
        /\ emitted = RuleAction(FirstRule(formatter, fonts, unit.ch), formatter, unit.ch, UnitBytes)
        /\ ( /\ ~formatter.all_as_hex
             /\ \/ (unit.ch = NEWLINE /\ formatter.newline_as_hex /\ ~formatter.newline_escaped)
                \/ (unit.ch = CARRIAGE_RETURN /\ formatter.carriage_return_as_hex)
                \/ (unit.ch = TAB /\ formatter.tab_as_hex) )
           => /\ FirstRule(formatter, fonts, unit.ch) = 8
              /\ emitted = WriteChar(formatter, unit.ch)
              /\ emitted \notin {<<10>>, <<92, 110>>, <<92, 114>>, <<92, 116>>}

\* a tab with tab_as_hex set was written as \u{9}
C1_Witness ==
    /\ CharHandled
    /\ unit.ch = TAB
    /\ formatter.tab_as_hex
    /\ ~formatter.all_as_hex
    /\ emitted = <<92, 117, 123, 57, 125>>

\* the loop has handled a unit that is not a validly encoded character: the
\* decoder gave no character, or the character does not encode to the bytes
InvalidHandled == idx > 0 /\ (~unit.ok \/ Utf8Encode(unit.ch) # UnitBytes)

\* C5: for every configuration (all_as_hex included), a unit whose bytes are
\* not valid UTF-8 (or do not equal the encoding of the decoded character) is
\* written as write_byte of each of its bytes in order, no rule for characters
\* is applied, and the loop goes on with the unit that follows it in the buffer.
C5_InvalidUnitEscapedByByte ==
    InvalidHandled =>
        /\ emitted = WriteBytes(formatter, UnitBytes)
        /\ Len(emitted) = Len(UnitBytes) * (IF formatter.hex_as_decimal THEN 5 ELSE 4)
        /\ idx = unit.end
        /\ idx < Len(buffer) => (pc = "loop" /\ ENABLED ProcessUnit)

\* after an invalid unit under all_as_hex (not as_bytes), the loop handled the
\* character that follows it
C5_Witness ==
    /\ CharHandled
    /\ unit.start > 0
    /\ ~CharIndexAt(buffer, 0).ok
    /\ formatter.all_as_hex
    /\ ~formatter.as_bytes
    /\ Len(Written(stdout_lock)) > Len(emitted)

IsDecDigit(d) == d >= 48 /\ d <= 57

IsLowerHexDigit(d) == IsDecDigit(d) \/ (d >= 97 /\ d <= 102)

\* the number a sequence of decimal digits denotes
RECURSIVE DecValue(_)
DecValue(ds) ==
    IF ds = <<>> THEN 0 ELSE 10 * DecValue(SubSeq(ds, 1, Len(ds) - 1)) + (ds[Len(ds)] - 48)

\* the number a sequence of lowercase hex digits denotes
RECURSIVE HexValue(_)
HexValue(ds) ==
    IF ds = <<>> THEN 0
    ELSE 16 * HexValue(SubSeq(ds, 1, Len(ds) - 1))
         + (IF IsDecDigit(ds[Len(ds)]) THEN ds[Len(ds)] - 48 ELSE ds[Len(ds)] - 87)

\* text is \u{ digits }
IsCodePointEscape(text) ==
    /\ Len(text) >= 5
    /\ SubSeq(text, 1, 3) = <<92, 117, 123>>
    /\ text[Len(text)] = 125

EscapeDigits(text) == SubSeq(text, 4, Len(text) - 1)

\* text is \u{ } around c in decimal
IsDecimalEscapeOf(text, c) ==
    /\ IsCodePointEscape(text)
    /\ \A i \in 1..Len(EscapeDigits(text)) : IsDecDigit(EscapeDigits(text)[i])
    /\ DecValue(EscapeDigits(text)) = c

\* text is \u{ } around c in lowercase hex, of min to 6 digits
IsHexEscapeOf(text, c, min) ==
    /\ IsCodePointEscape(text)
    /\ \A i \in 1..Len(EscapeDigits(text)) : IsLowerHexDigit(EscapeDigits(text)[i])
    /\ HexValue(EscapeDigits(text)) = c
    /\ Len(EscapeDigits(text)) >= min
    /\ Len(EscapeDigits(text)) <= 6

\* write_char was called for the character of the last unit (under
\* all_as_hex every character is written by write_char)
WriteCharCalled == CharHandled /\ formatter.all_as_hex

\* C7 as stated: write_char writes the byte escapes of the character's UTF-8
\* bytes if as_bytes, else \u{decimal} if hex_as_decimal, else \u{hex} with
\* 4 to 6 lowercase hex digits.
C7_Original ==
    WriteCharCalled =>
        IF formatter.as_bytes THEN emitted = WriteBytes(formatter, UnitBytes)
        ELSE IF formatter.hex_as_decimal THEN IsDecimalEscapeOf(emitted, unit.ch)
        ELSE IsHexEscapeOf(emitted, unit.ch, 4)

\* C7 as amended: as C7_Original, but the hex form has 1 to 6 digits, as few
\* as the code point needs (no leading zero).
C7_WriteCharForms ==
    WriteCharCalled =>
        IF formatter.as_bytes THEN emitted = WriteBytes(formatter, UnitBytes)
        ELSE IF formatter.hex_as_decimal THEN IsDecimalEscapeOf(emitted, unit.ch)
        ELSE /\ IsHexEscapeOf(emitted, unit.ch, 1)
             /\ (Len(EscapeDigits(emitted)) > 1 => EscapeDigits(emitted)[1] # 48)

\* U+00E9 was written as \d195\d169 with as_bytes and hex_as_decimal both set
C7_Witness ==
    /\ WriteCharCalled
    /\ unit.ch = 233
    /\ formatter.as_bytes
    /\ formatter.hex_as_decimal
    /\ emitted = <<92, 100, 49, 57, 53, 92, 100, 49, 54, 57>>

HasBackslash(t) == \E i \in 1..Len(t) : t[i] = 92

\* process_str has returned from a valid UTF-8 text
TextDone == pc = "return" /\ buffer \in Texts

\* C3 as stated: for every configuration without space_as_circle and every
\* valid UTF-8 input, the output determines the input (no other input gives
\* the same output), also for inputs that hold a backslash.
C3_Original ==
    (TextDone /\ ~formatter.space_as_circle) =>
        \A t \in Texts :
            ProcessStr(formatter, fonts, t) = Written(stdout_lock) => t = buffer

\* C3 as amended: the output determines the input among the inputs that hold
\* no backslash, and among all inputs when all_as_hex is set.
C3_InjectiveWithoutBackslash ==
    (TextDone /\ ~formatter.space_as_circle
        /\ (formatter.all_as_hex \/ ~HasBackslash(buffer))) =>
        \A t \in Texts :
            (formatter.all_as_hex \/ ~HasBackslash(t)) =>
                (ProcessStr(formatter, fonts, t) = Written(stdout_lock) => t = buffer)

\* a newline followed by 'n' was written as \nn under newline_escaped
C3_Witness ==
    /\ TextDone
    /\ buffer = <<10, 110>>
    /\ formatter.newline_escaped
    /\ ~formatter.all_as_hex
    /\ Written(stdout_lock) = <<92, 110, 110>>

====
